---- MODULE Spec2Model ----
(***************************************************************************)
(* Service-attachment update: the patch builder (UpdateHelper._Modify and  *)
(* UpdateHelper.Run), the accept-list normalizers and the obsolete-entry   *)
(* pruner of service_attachments_utils.py.                                 *)
(*                                                                         *)
(* Representation of Python values:                                        *)
(*  - a string that is used as a path ("p1/forwardingRules/e1") is the     *)
(*    sequence of its '/'-separated segments, i.e. s.split('/'); the empty *)
(*    string is <<"">> (as ''.split('/') == ['']);                         *)
(*  - an optional value (None or v) is a sequence of length <= 1: <<>> is  *)
(*    None, <<v>> is v; for a path, None is the empty sequence <<>>;       *)
(*  - a raw connection limit (the string the flag parser hands over) is an *)
(*    optional sequence of decimal digits: <<>> is None, << <<>> >> is '', *)
(*    << <<1,0>> >> is '10'.                                               *)
(***************************************************************************)
EXTENDS Integers, Sequences, FiniteSets, TLC

VARIABLES
    pc,              \* position of UpdateHelper.Run
    support,         \* self._support_endpoint_based_security_arg
    server,          \* the service attachment as the server holds it
    args,            \* the parsed arguments (override set)
    old_resource,    \* Run: old_resource, <<>> before the Get answered
    modified,        \* the outcome of _Modify, <<>> before it ran
    cleared_fields,  \* Run: cleared_fields
    requests,        \* the requests handed to client.MakeRequests, in order
    result,          \* what Run returned, <<>> while running or after a raise
    n_in,            \* normalizer: args.consumer_accept_list
    n_out,           \* normalizer: its outcome, <<>> before it ran
    p_in,            \* pruner: [sa, cleared] before the pass
    p_out            \* pruner: its outcome, <<>> before it ran

vars == << pc, support, server, args, old_resource, modified, cleared_fields,
           requests, result, n_in, n_out, p_in, p_out >>
runVars == << pc, support, server, args, old_resource, modified, cleared_fields,
              requests, result >>
normVars == << n_in, n_out >>
pruneVars == << p_in, p_out >>

-----------------------------------------------------------------------------
(* Bounds of the model. *)

\* at most this many overrides are specified in one invocation
MaxOverrides == 2
\* at most this many (identifier, limit) entries in one accept-list argument
MaxEntries == 2

-----------------------------------------------------------------------------
(* Strings as segment sequences. *)

\* the segments the model uses, in Python's string order
SegmentOrder ==
    << "", "e1", "e3", "forwardingRules", "n1", "networks", "p1", "p2",
       "projects", "s1", "s2", "subnetworks" >>

Rank(seg) == CHOOSE i \in 1..Len(SegmentOrder) : SegmentOrder[i] = seg

Min2(a, b) == IF a <= b THEN a ELSE b

\* s < t for two strings (Python str.__lt__): '/' sorts below every character
\* of a segment, so the order is the lexicographic order of the segments
StrLess(s, t) ==
    \E i \in 1..(Min2(Len(s), Len(t)) + 1) :
        /\ \A j \in 1..(i - 1) : s[j] = t[j]
        /\ \/ i = Len(s) + 1 /\ i <= Len(t)
           \/ i <= Len(s) /\ i <= Len(t) /\ Rank(s[i]) < Rank(t[i])

\* marker in s, for marker = '/' + m + '/'
Contains(s, m) == \E i \in 2..(Len(s) - 1) : s[i] = m

HasNetworks(s) == Contains(s, "networks")
HasForwardingRules(s) == Contains(s, "forwardingRules")

\* s.rstrip('/')
RECURSIVE RStrip(_)
RStrip(s) ==
    IF Len(s) > 1 /\ s[Len(s)] = ""
    THEN RStrip(SubSeq(s, 1, Len(s) - 1))
    ELSE s

\* s.rstrip('/').split('/')[-1]
LastSegment(s) == RStrip(s)[Len(RStrip(s))]

\* sorted(xs) for a list of strings
RECURSIVE InsertStr(_, _)
InsertStr(x, ys) ==
    IF ys = <<>> THEN << x >>
    ELSE IF StrLess(x, Head(ys)) THEN << x >> \o ys
    ELSE << Head(ys) >> \o InsertStr(x, Tail(ys))

\* mutant of SortedStrs: the list is compared as given, unsorted
SortedStrs_Unsorted(xs) == xs

RECURSIVE SortedStrs(_)
SortedStrs(xs) ==
    IF xs = <<>> THEN <<>>
    ELSE InsertStr(xs[Len(xs)], SortedStrs(SubSeq(xs, 1, Len(xs) - 1)))

-----------------------------------------------------------------------------
(* Connection limits. *)

None == <<>>
Some(v) == << v >>

\* bool(conn_limit_raw): None and '' are falsy
Truthy(raw) == raw # None /\ raw[1] # <<>>

\* int(digits) for a non-empty digit string
RECURSIVE DigitsValue(_)
DigitsValue(ds) ==
    IF ds = <<>> THEN 0
    ELSE 10 * DigitsValue(SubSeq(ds, 1, Len(ds) - 1)) + ds[Len(ds)]

\* int(raw): TypeError on None, ValueError on '', the number otherwise
IntOf(raw) ==
    IF raw = None THEN [ok |-> FALSE, error |-> "TypeError", value |-> 0]
    ELSE IF raw[1] = <<>> THEN [ok |-> FALSE, error |-> "ValueError", value |-> 0]
    ELSE [ok |-> TRUE, error |-> "", value |-> DigitsValue(raw[1])]

-----------------------------------------------------------------------------
(* messages.ServiceAttachmentConsumerProjectLimit *)

ProjectLimit(id, limit) ==
    [projectIdOrNum |-> id, networkUrl |-> None, endpointUrl |-> None,
     connectionLimit |-> limit]
NetworkLimit(id, limit) ==
    [projectIdOrNum |-> None, networkUrl |-> id, endpointUrl |-> None,
     connectionLimit |-> limit]
EndpointLimit(id, limit) ==
    [projectIdOrNum |-> None, networkUrl |-> None, endpointUrl |-> id,
     connectionLimit |-> limit]

\* sorted(six.iteritems(project_limit)): the keys of a dict are distinct, so
\* the items are ordered by key
RECURSIVE SortedKeys(_)
SortedKeys(S) ==
    IF S = {} THEN <<>>
    ELSE LET m == CHOOSE x \in S : \A y \in S \ {x} : StrLess(x, y)
         IN  << m >> \o SortedKeys(S \ {m})

\* mutant of SortedItems: the items come in the dict's own order (here the
\* reverse of the sorted one)
SortedItems_Unsorted(project_limit) ==
    LET ks == SortedKeys(DOMAIN project_limit)
    IN  [i \in 1..Len(ks) |->
            << ks[Len(ks) + 1 - i], project_limit[ks[Len(ks) + 1 - i]] >>]

SortedItems(project_limit) ==
    LET ks == SortedKeys(DOMAIN project_limit)
    IN  [i \in 1..Len(ks) |-> << ks[i], project_limit[ks[i]] >>]

\* all (key, value) pairs in the order the two nested loops visit them
RECURSIVE IterationOrder(_)
IterationOrder(accept_arg) ==
    IF accept_arg = <<>> THEN <<>>
    ELSE SortedItems(Head(accept_arg)) \o IterationOrder(Tail(accept_arg))

Ok(list) == [ok |-> TRUE, error |-> "", list |-> list]
Raise(kind) == [ok |-> FALSE, error |-> kind, list |-> <<>>]

\* one iteration of the loop body of GetConsumerAcceptList
BasicEntry(id, raw) ==
    IF HasNetworks(id)
    THEN IF IntOf(raw).ok THEN Ok(<< NetworkLimit(id, Some(IntOf(raw).value)) >>)
         ELSE Raise(IntOf(raw).error)
    ELSE IF HasForwardingRules(id) THEN Raise("ValueError")
    ELSE IF IntOf(raw).ok THEN Ok(<< ProjectLimit(id, Some(IntOf(raw).value)) >>)
         ELSE Raise(IntOf(raw).error)

\* mutant of ExtendedEntry: an endpoint URL needs a limit like the others
ExtendedEntry_LimitRequired(id, raw) ==
    IF ~Truthy(raw) THEN Raise("ValueError")
    ELSE IF HasNetworks(id) THEN Ok(<< NetworkLimit(id, Some(IntOf(raw).value)) >>)
    ELSE IF HasForwardingRules(id)
    THEN Ok(<< EndpointLimit(id, Some(IntOf(raw).value)) >>)
    ELSE Ok(<< ProjectLimit(id, Some(IntOf(raw).value)) >>)

\* one iteration of the loop body of
\* GetConsumerAcceptListWithEndpointBasedSecurity
ExtendedEntry(id, raw) ==
    IF HasNetworks(id)
    THEN IF ~Truthy(raw) THEN Raise("ValueError")
         ELSE Ok(<< NetworkLimit(id, Some(IntOf(raw).value)) >>)
    ELSE IF HasForwardingRules(id)
    THEN IF Truthy(raw) THEN Ok(<< EndpointLimit(id, Some(IntOf(raw).value)) >>)
         ELSE Ok(<< EndpointLimit(id, None) >>)
    ELSE IF ~Truthy(raw) THEN Raise("ValueError")
         ELSE Ok(<< ProjectLimit(id, Some(IntOf(raw).value)) >>)

\* the loops: the first raise ends the call, the list built so far is lost
RECURSIVE BasicLoop(_, _)
BasicLoop(items, acc) ==
    IF items = <<>> THEN Ok(acc)
    ELSE LET e == BasicEntry(Head(items)[1], Head(items)[2])
         IN  IF e.ok THEN BasicLoop(Tail(items), acc \o e.list) ELSE e

RECURSIVE ExtendedLoop(_, _)
ExtendedLoop(items, acc) ==
    IF items = <<>> THEN Ok(acc)
    ELSE LET e == ExtendedEntry(Head(items)[1], Head(items)[2])
         IN  IF e.ok THEN ExtendedLoop(Tail(items), acc \o e.list) ELSE e

GetConsumerAcceptList(accept_arg) == BasicLoop(IterationOrder(accept_arg), <<>>)

GetConsumerAcceptListWithEndpointBasedSecurity(accept_arg) ==
    ExtendedLoop(IterationOrder(accept_arg), <<>>)

-----------------------------------------------------------------------------
(* The values args.consumer_accept_list can take: a list of dicts (one per  *)
(* occurrence of the flag), each from identifiers to raw limits.            *)

\* the dicts with exactly k of the identifiers ids as keys
Mappings(ids, limits, k) ==
    UNION { [S -> limits] : S \in { T \in SUBSET ids : Cardinality(T) = k } }

\* the lists of n dicts with at most budget entries in all
RECURSIVE AcceptArgsOf(_, _, _, _)
AcceptArgsOf(ids, limits, n, budget) ==
    IF n = 0 THEN { <<>> }
    ELSE UNION { { << m >> \o rest :
                     m \in Mappings(ids, limits, k),
                     rest \in AcceptArgsOf(ids, limits, n - 1, budget - k) } :
                 k \in 0..budget }

\* one to MaxEntries dicts, at most MaxEntries entries in all
AcceptArgs(ids, limits) ==
    UNION { AcceptArgsOf(ids, limits, n, MaxEntries) : n \in 1..MaxEntries }

\* the idle value of the variables a specification does not use
Idle == <<>>

RunIdle ==
    /\ pc = Idle /\ support = Idle /\ server = Idle /\ args = Idle
    /\ old_resource = Idle
    /\ modified = Idle /\ cleared_fields = Idle /\ requests = Idle
    /\ result = Idle
NormIdle == n_in = Idle /\ n_out = Idle
PruneIdle == p_in = Idle /\ p_out = Idle

-----------------------------------------------------------------------------
(* Specification SpecNorm: the two accept-list normalizers as functions of  *)
(* args.consumer_accept_list.                                               *)

NormIds ==
    { << "p1" >>, << "projects", "p1" >>, << "p1", "networks", "n1" >>,
      << "p1", "forwardingRules", "e1" >>,
      << "p1", "networks", "forwardingRules", "e1" >> }

NormLimits == { None, Some(<<>>), Some(<< 0 >>), Some(<< 1, 0 >>) }

NormInit ==
    /\ n_in \in AcceptArgs(NormIds, NormLimits)
    /\ n_out = None
    /\ RunIdle
    /\ PruneIdle

NormBasic ==
    /\ n_out = None
    /\ n_out' = Some([extended |-> FALSE, res |-> GetConsumerAcceptList(n_in)])
    /\ UNCHANGED << n_in, runVars, pruneVars >>

NormExtended ==
    /\ n_out = None
    /\ n_out' = Some([extended |-> TRUE,
                      res |-> GetConsumerAcceptListWithEndpointBasedSecurity(n_in)])
    /\ UNCHANGED << n_in, runVars, pruneVars >>

NormNext == NormBasic \/ NormExtended

SpecNorm == NormInit /\ [][NormNext]_vars

-----------------------------------------------------------------------------
(* Claims about the normalizers, checked under SpecNorm. *)

NormDone(extended) == n_out # None /\ n_out[1].extended = extended
NormRes == n_out[1].res

\* the (dict index, identifier) pairs of the argument
InputEntries == { << k, id >> : k \in DOMAIN n_in, id \in NormIds } \cap
                { e \in (DOMAIN n_in) \X NormIds : e[2] \in DOMAIN n_in[e[1]] }

RECURSIVE EntriesBefore(_)
EntriesBefore(k) ==
    IF k <= 1 THEN 0
    ELSE EntriesBefore(k - 1) + Cardinality(DOMAIN n_in[k - 1])

EntryCount == EntriesBefore(Len(n_in) + 1)

\* the identifier an output entry carries, whichever variant holds it
EntryId(e) ==
    IF e.projectIdOrNum # None THEN e.projectIdOrNum
    ELSE IF e.networkUrl # None THEN e.networkUrl
    ELSE e.endpointUrl

VariantsSet(e) ==
    Cardinality({ f \in { "projectIdOrNum", "networkUrl", "endpointUrl" } :
                    e[f] # None })

\* every limit of the argument is the decimal string of an integer
IntegerLimits ==
    \A k \in DOMAIN n_in : \A id \in DOMAIN n_in[k] :
        n_in[k][id] # None /\ n_in[k][id][1] # <<>>

\* C9 (as stated): basic form, every limit an integer: an input with a
\* '/forwardingRules/' identifier fails and produces no list; otherwise every
\* entry yields one entry with its integer limit, a network-limit entry if the
\* identifier contains '/networks/' and a project-limit entry if not, and the
\* output is sorted by identifier.
C9_AsStated ==
    NormDone(FALSE) /\ IntegerLimits =>
        IF \E e \in InputEntries : HasForwardingRules(e[2])
        THEN ~NormRes.ok /\ NormRes.list = <<>>
        ELSE /\ NormRes.ok
             /\ Len(NormRes.list) = EntryCount
             /\ \A e \in InputEntries :
                    \E i \in DOMAIN NormRes.list :
                        /\ EntryId(NormRes.list[i]) = e[2]
                        /\ NormRes.list[i].connectionLimit # None
                        /\ NormRes.list[i].endpointUrl = None
                        /\ (NormRes.list[i].networkUrl # None) = HasNetworks(e[2])
             /\ \A i \in 1..(Len(NormRes.list) - 1) :
                    ~StrLess(EntryId(NormRes.list[i + 1]),
                             EntryId(NormRes.list[i]))

\* an identifier on which the basic form raises
BasicFails(id) == HasForwardingRules(id) /\ ~HasNetworks(id)

\* C9 (amended): basic form, every limit an integer: the call fails,
\* producing no list, exactly when some identifier contains
\* '/forwardingRules/' and does not contain '/networks/'; otherwise every
\* entry yields one entry with its integer limit, a network-limit entry if the
\* identifier contains '/networks/' and a project-limit entry if not, and the
\* output lists the dicts in argument order, each dict's entries sorted by
\* identifier.
C9_BasicNormalizer ==
    NormDone(FALSE) /\ IntegerLimits =>
        /\ NormRes.ok = ~(\E e \in InputEntries : BasicFails(e[2]))
        /\ ~NormRes.ok => NormRes.list = <<>>
        /\ NormRes.ok =>
            /\ Len(NormRes.list) = EntryCount
            /\ \A k \in DOMAIN n_in :
                 LET from == EntriesBefore(k) + 1
                     to   == EntriesBefore(k + 1)
                 IN  /\ { EntryId(NormRes.list[i]) : i \in from..to }
                            = DOMAIN n_in[k]
                     /\ \A i \in from..(to - 1) :
                            StrLess(EntryId(NormRes.list[i]),
                                    EntryId(NormRes.list[i + 1]))
                     /\ \A i \in from..to :
                          LET e  == NormRes.list[i]
                              id == EntryId(e)
                          IN  /\ e.connectionLimit
                                    = Some(DigitsValue(n_in[k][id][1]))
                              /\ e.endpointUrl = None
                              /\ VariantsSet(e) = 1
                              /\ (e.networkUrl # None) = HasNetworks(id)

\* C9 witness: the basic form returned a list that is not sorted as a whole
\* (two dicts), and one with an identifier carrying both markers
C9_Witness ==
    /\ NormDone(FALSE)
    /\ NormRes.ok
    /\ Len(NormRes.list) = 2
    /\ StrLess(EntryId(NormRes.list[2]), EntryId(NormRes.list[1]))
    /\ \E i \in 1..2 : HasForwardingRules(EntryId(NormRes.list[i]))

\* an entry on which the extended form raises
ExtendedFails(k, id) ==
    /\ ~Truthy(n_in[k][id])
    /\ HasNetworks(id) \/ ~HasForwardingRules(id)

\* what the extended form makes of one entry; the identifier is classified as
\* the code does: network path first, endpoint path next, anything else last
ExtendedExpected(id, raw) ==
    LET limit == IF Truthy(raw) THEN Some(DigitsValue(raw[1])) ELSE None
    IN  IF HasNetworks(id) THEN NetworkLimit(id, limit)
        ELSE IF HasForwardingRules(id) THEN EndpointLimit(id, limit)
        ELSE ProjectLimit(id, limit)

\* C10: extended form: a network-path identifier without a limit is a fatal
\* error and with a limit gives a network entry; an endpoint-path identifier
\* gives an endpoint entry with the limit when given and without when not; any
\* other identifier without a limit is a fatal error and with a limit gives a
\* project entry; every output entry has exactly one identifier variant set.
C10_ExtendedNormalizer ==
    NormDone(TRUE) =>
        /\ NormRes.ok = ~(\E e \in InputEntries : ExtendedFails(e[1], e[2]))
        /\ NormRes.ok =>
            /\ Len(NormRes.list) = EntryCount
            /\ \A e \in InputEntries :
                 /\ \E i \in DOMAIN NormRes.list :
                        NormRes.list[i] = ExtendedExpected(e[2], n_in[e[1]][e[2]])
                 /\ HasNetworks(e[2]) => Truthy(n_in[e[1]][e[2]])
            /\ \A i \in DOMAIN NormRes.list :
                 /\ VariantsSet(NormRes.list[i]) = 1
                 /\ \E e \in InputEntries :
                        NormRes.list[i] = ExtendedExpected(e[2], n_in[e[1]][e[2]])
                 /\ NormRes.list[i].endpointUrl = None
                        => NormRes.list[i].connectionLimit # None

\* C10 witness: the extended form returned an endpoint entry without a limit
\* next to an entry with one
C10_Witness ==
    /\ NormDone(TRUE)
    /\ NormRes.ok
    /\ \E i, j \in DOMAIN NormRes.list :
         /\ NormRes.list[i].endpointUrl # None
         /\ NormRes.list[i].connectionLimit = None
         /\ NormRes.list[j].connectionLimit # None

-----------------------------------------------------------------------------
(* The obsolete-entry pruner. *)

\* bool(s) for an optional string: None and '' are falsy
StrTruthy(s) == s # None /\ s # << "" >>

Range(xs) == { xs[i] : i \in DOMAIN xs }

\* cleared_fields.remove(name): drops the first occurrence
RECURSIVE ListRemove(_, _)
ListRemove(xs, name) ==
    IF xs = <<>> THEN <<>>
    ELSE IF Head(xs) = name THEN Tail(xs)
    ELSE << Head(xs) >> \o ListRemove(Tail(xs), name)

\* mutant of GetConnectedEndpointIds: the trailing separators are not stripped
GetConnectedEndpointIds_NoStrip(service_attachment) ==
    { ep[Len(ep)] :
        ep \in { e \in Range(service_attachment.connectedEndpoints) :
                   StrTruthy(e) } }

GetConnectedEndpointIds(service_attachment) ==
    { LastSegment(ep) :
        ep \in { e \in Range(service_attachment.connectedEndpoints) :
                   StrTruthy(e) } }

\* mutant of MarkCleared: the name is appended without looking for it
MarkCleared_AlwaysAppend(cleaned, name, cleared) ==
    IF cleaned = <<>> THEN Append(cleared, name)
    ELSE IF name \in Range(cleared) THEN ListRemove(cleared, name)
    ELSE cleared

\* the bookkeeping both Clean* functions end with
MarkCleared(cleaned, name, cleared) ==
    IF cleaned = <<>> /\ name \notin Range(cleared)
    THEN Append(cleared, name)
    ELSE IF cleaned # <<>> /\ name \in Range(cleared)
    THEN ListRemove(cleared, name)
    ELSE cleared

\* the filter of CleanObsoleteAcceptedEndpointUrls
RECURSIVE KeepAccepted(_, _)
KeepAccepted(xs, connected_endpoint_ids) ==
    IF xs = <<>> THEN <<>>
    ELSE (IF \/ ~StrTruthy(Head(xs).endpointUrl)
             \/ LastSegment(Head(xs).endpointUrl) \in connected_endpoint_ids
          THEN << Head(xs) >> ELSE <<>>)
             \o KeepAccepted(Tail(xs), connected_endpoint_ids)

\* the filter of CleanObsoleteRejectedEndpointUrls
RECURSIVE KeepRejected(_, _)
KeepRejected(xs, connected_endpoint_ids) ==
    IF xs = <<>> THEN <<>>
    ELSE (IF \/ ~HasForwardingRules(Head(xs))
             \/ LastSegment(Head(xs)) \in connected_endpoint_ids
          THEN << Head(xs) >> ELSE <<>>)
             \o KeepRejected(Tail(xs), connected_endpoint_ids)

CleanObsoleteAcceptedEndpointUrls(service_attachment, connected_endpoint_ids, cleared) ==
    LET old == service_attachment.consumerAcceptLists
        cleaned == KeepAccepted(old, connected_endpoint_ids)
    IN  IF old = <<>>
        THEN [sa |-> service_attachment, cleared |-> cleared, changed |-> FALSE]
        ELSE IF Len(cleaned) = Len(old)
        THEN [sa |-> [service_attachment EXCEPT !.consumerAcceptLists = cleaned],
              cleared |-> cleared, changed |-> FALSE]
        ELSE [sa |-> [service_attachment EXCEPT !.consumerAcceptLists = cleaned],
              cleared |-> MarkCleared(cleaned, "consumerAcceptLists", cleared),
              changed |-> TRUE]

CleanObsoleteRejectedEndpointUrls(service_attachment, connected_endpoint_ids, cleared) ==
    LET old == service_attachment.consumerRejectLists
        cleaned == KeepRejected(old, connected_endpoint_ids)
    IN  IF old = <<>>
        THEN [sa |-> service_attachment, cleared |-> cleared, changed |-> FALSE]
        ELSE IF Len(cleaned) = Len(old)
        THEN [sa |-> [service_attachment EXCEPT !.consumerRejectLists = cleaned],
              cleared |-> cleared, changed |-> FALSE]
        ELSE [sa |-> [service_attachment EXCEPT !.consumerRejectLists = cleaned],
              cleared |-> MarkCleared(cleaned, "consumerRejectLists", cleared),
              changed |-> TRUE]

\* UpdateHelper._RemoveObsoleteEndpointEntries
RemoveObsoleteEndpointEntries(replacement, cleared) ==
    LET connected_endpoint_ids == GetConnectedEndpointIds(replacement)
        a == CleanObsoleteAcceptedEndpointUrls(replacement,
                                               connected_endpoint_ids, cleared)
        r == CleanObsoleteRejectedEndpointUrls(a.sa, connected_endpoint_ids,
                                               a.cleared)
    IN  [sa |-> r.sa, cleared |-> r.cleared,
         changed |-> (a.changed \/ r.changed)]

-----------------------------------------------------------------------------
(* messages.ServiceAttachment, with the fields the update reads or writes. *)

ServiceAttachment(nat, reject, accept, connected) ==
    [targetService |-> "t0",
     description |-> "d0",
     connectionPreference |-> Some("ACCEPT_AUTOMATIC"),
     enableProxyProtocol |-> FALSE,
     natSubnets |-> nat,
     consumerRejectLists |-> reject,
     consumerAcceptLists |-> accept,
     connectedEndpoints |-> connected,
     reconcileConnections |-> FALSE,
     propagatedConnectionLimit |-> 250]

\* the lists over S of length at most n
SeqsUpTo(S, n) == UNION { [1..k -> S] : k \in 0..n }

FieldNames == { "consumerAcceptLists", "consumerRejectLists" }

\* the Field-Clear lists the program can hold: each name at most once
ClearedLists ==
    { xs \in SeqsUpTo(FieldNames, Cardinality(FieldNames)) :
        \A i, j \in DOMAIN xs : xs[i] = xs[j] => i = j }

-----------------------------------------------------------------------------
(* Specification SpecPrune: the pruning pass as a function of the service   *)
(* attachment and the Field-Clear List.                                     *)

EndpointE1 == << "p1", "forwardingRules", "e1" >>
EndpointE3 == << "p1", "forwardingRules", "e3" >>

\* the URL of endpoint e1 with a trailing separator
EndpointE1Slash == << "p1", "forwardingRules", "e1", "" >>
NetworkN1 == << "p1", "networks", "n1" >>

PruneAcceptEntries ==
    { ProjectLimit(<< "p1" >>, Some(5)), NetworkLimit(NetworkN1, Some(5)),
      EndpointLimit(EndpointE1, None), EndpointLimit(EndpointE3, Some(5)),
      EndpointLimit(EndpointE1Slash, None) }

PruneRejectEntries == { NetworkN1, EndpointE1, EndpointE3, EndpointE1Slash }

\* connectedEndpoints, each entry its endpointWithId (None when absent)
PruneConnected ==
    { <<>>,
      << << "p2", "forwardingRules", "e1" >> >>,
      << None, << "p2", "forwardingRules", "e1", "" >> >>,
      << EndpointE3 >> }

PruneInit ==
    /\ p_in \in [sa : { ServiceAttachment(<<>>, r, a, c) :
                          r \in SeqsUpTo(PruneRejectEntries, MaxEntries),
                          a \in SeqsUpTo(PruneAcceptEntries, MaxEntries),
                          c \in PruneConnected },
                 cleared : ClearedLists]
    /\ p_out = None
    /\ RunIdle
    /\ NormIdle

PruneAccepted ==
    /\ p_out = None
    /\ p_out' = Some([pass |-> "accepted",
                      res |-> CleanObsoleteAcceptedEndpointUrls(
                                  p_in.sa, GetConnectedEndpointIds(p_in.sa),
                                  p_in.cleared)])
    /\ UNCHANGED << p_in, runVars, normVars >>

PruneRejected ==
    /\ p_out = None
    /\ p_out' = Some([pass |-> "rejected",
                      res |-> CleanObsoleteRejectedEndpointUrls(
                                  p_in.sa, GetConnectedEndpointIds(p_in.sa),
                                  p_in.cleared)])
    /\ UNCHANGED << p_in, runVars, normVars >>

PruneBoth ==
    /\ p_out = None
    /\ p_out' = Some([pass |-> "both",
                      res |-> RemoveObsoleteEndpointEntries(p_in.sa,
                                                            p_in.cleared)])
    /\ UNCHANGED << p_in, runVars, normVars >>

PruneNext == PruneAccepted \/ PruneRejected \/ PruneBoth

SpecPrune == PruneInit /\ [][PruneNext]_vars

-----------------------------------------------------------------------------
(* Claims about the pruner, checked under SpecPrune. *)

PruneDone(pass) == p_out # None /\ p_out[1].pass = pass
PruneRes == p_out[1].res

Count(xs, name) == Cardinality({ i \in DOMAIN xs : xs[i] = name })

\* what C8 says of one list: before and after the pass, the report, the name
ListPruned(before, after, changed, name, cleared_before, cleared_after) ==
    /\ changed = (Len(after) < Len(before))
    /\ changed /\ after = <<>> => Count(cleared_after, name) = 1
    /\ changed /\ after # <<>> => Count(cleared_after, name) = 0
    /\ ~changed => Count(cleared_after, name) = Count(cleared_before, name)

\* C8: the pruning pass reports 'changed' for a list exactly when an entry was
\* removed from it, and 'changed' overall iff either list changed; a list that
\* changed and is now empty has its field name in the Field-Clear List exactly
\* once, one that changed and is not empty has it not in the list, and for one
\* that did not change the list is untouched as to that name.
C8_PruningReport ==
    /\ PruneDone("accepted") =>
         /\ ListPruned(p_in.sa.consumerAcceptLists,
                       PruneRes.sa.consumerAcceptLists, PruneRes.changed,
                       "consumerAcceptLists", p_in.cleared, PruneRes.cleared)
         /\ ~PruneRes.changed => PruneRes.cleared = p_in.cleared
    /\ PruneDone("rejected") =>
         /\ ListPruned(p_in.sa.consumerRejectLists,
                       PruneRes.sa.consumerRejectLists, PruneRes.changed,
                       "consumerRejectLists", p_in.cleared, PruneRes.cleared)
         /\ ~PruneRes.changed => PruneRes.cleared = p_in.cleared
    /\ PruneDone("both") =>
         LET acceptChanged == Len(PruneRes.sa.consumerAcceptLists)
                                  < Len(p_in.sa.consumerAcceptLists)
             rejectChanged == Len(PruneRes.sa.consumerRejectLists)
                                  < Len(p_in.sa.consumerRejectLists)
         IN  /\ PruneRes.changed = (acceptChanged \/ rejectChanged)
             /\ ListPruned(p_in.sa.consumerAcceptLists,
                           PruneRes.sa.consumerAcceptLists, acceptChanged,
                           "consumerAcceptLists", p_in.cleared,
                           PruneRes.cleared)
             /\ ListPruned(p_in.sa.consumerRejectLists,
                           PruneRes.sa.consumerRejectLists, rejectChanged,
                           "consumerRejectLists", p_in.cleared,
                           PruneRes.cleared)
             /\ ~PruneRes.changed => PruneRes.cleared = p_in.cleared

\* C8 witness: the full pass emptied the accept list (its name is now in the
\* Field-Clear List) and shortened the reject list without emptying it (its
\* name, there before, is gone)
C8_Witness ==
    /\ PruneDone("both")
    /\ p_in.sa.consumerAcceptLists # <<>>
    /\ PruneRes.sa.consumerAcceptLists = <<>>
    /\ PruneRes.sa.consumerRejectLists # <<>>
    /\ Len(PruneRes.sa.consumerRejectLists) < Len(p_in.sa.consumerRejectLists)
    /\ "consumerRejectLists" \in Range(p_in.cleared)
    /\ PruneRes.cleared = << "consumerAcceptLists" >>

-----------------------------------------------------------------------------
(* UpdateHelper: the sort keys of accept-list entries. *)

GetProjectOrNetwork(consumer_limit) ==
    IF consumer_limit.projectIdOrNum # None
    THEN << consumer_limit.projectIdOrNum, consumer_limit.connectionLimit >>
    ELSE << consumer_limit.networkUrl, consumer_limit.connectionLimit >>

GetProjectOrNetworkOrEndpoint(consumer_limit) ==
    IF consumer_limit.projectIdOrNum # None
    THEN << consumer_limit.projectIdOrNum, consumer_limit.connectionLimit >>
    ELSE IF consumer_limit.endpointUrl # None
    THEN << consumer_limit.endpointUrl, consumer_limit.connectionLimit >>
    ELSE << consumer_limit.networkUrl, consumer_limit.connectionLimit >>

GetProjectOrNetworkOrEndpointBasedOnArg(sup, consumer_limit) ==
    IF sup THEN GetProjectOrNetworkOrEndpoint(consumer_limit)
    ELSE GetProjectOrNetwork(consumer_limit)

\* k1 < k2 raises TypeError: tuples compare at their first unequal item, and
\* None orders with neither a string nor an integer
KeysIncomparable(k1, k2) ==
    IF k1[1] # k2[1] THEN k1[1] = None \/ k2[1] = None
    ELSE k1[2] # k2[2] /\ (k1[2] = None \/ k2[2] = None)

\* k1 < k2 for comparable keys
KeyLess(k1, k2) ==
    IF k1[1] # k2[1] THEN StrLess(k1[1], k2[1])
    ELSE k1[2] # k2[2] /\ k1[2][1] < k2[2][1]

RECURSIVE InsertByKey(_, _, _)
InsertByKey(sup, x, ys) ==
    IF ys = <<>> THEN << x >>
    ELSE IF KeyLess(GetProjectOrNetworkOrEndpointBasedOnArg(sup, x),
                    GetProjectOrNetworkOrEndpointBasedOnArg(sup, Head(ys)))
    THEN << x >> \o ys
    ELSE << Head(ys) >> \o InsertByKey(sup, x, Tail(ys))

RECURSIVE StableSortByKey(_, _)
StableSortByKey(sup, xs) ==
    IF xs = <<>> THEN <<>>
    ELSE InsertByKey(sup, xs[Len(xs)],
                     StableSortByKey(sup, SubSeq(xs, 1, Len(xs) - 1)))

\* sorted(xs, key=self._GetProjectOrNetworkOrEndpointBasedOnArg): a sort has
\* to compare the two entries of every pair whose keys do not order, so it
\* raises exactly when there is such a pair
SortedByKey(sup, xs) ==
    IF \E i, j \in DOMAIN xs :
           KeysIncomparable(GetProjectOrNetworkOrEndpointBasedOnArg(sup, xs[i]),
                            GetProjectOrNetworkOrEndpointBasedOnArg(sup, xs[j]))
    THEN Raise("TypeError")
    ELSE Ok(StableSortByKey(sup, xs))

\* UpdateHelper._GetConsumerAcceptList
UpdateGetConsumerAcceptList(sup, accept_arg) ==
    IF sup THEN GetConsumerAcceptListWithEndpointBasedSecurity(accept_arg)
    ELSE GetConsumerAcceptList(accept_arg)

\* nat_subnetwork_ref.SelfLink(): the URL of the named subnetwork
SelfLink(ref) == << "subnetworks", ref >>

\* UpdateHelper._GetNatSubnets: no references resolve to None, hence []
GetNatSubnets(refs) ==
    IF refs = <<>> THEN <<>> ELSE [i \in DOMAIN refs |-> SelfLink(refs[i])]

\* service_attachments_utils.GetConnectionPreference
GetConnectionPreference(token) ==
    IF token = "ACCEPT_AUTOMATIC" THEN Some("ACCEPT_AUTOMATIC")
    ELSE IF token = "ACCEPT_MANUAL" THEN Some("ACCEPT_MANUAL")
    ELSE None

-----------------------------------------------------------------------------
(* UpdateHelper._Modify, one operator per block of the method. The state of *)
(* the call: the copy, the caller's cleared_fields, is_updated, and the     *)
(* exception raised ("" while none is). A repeated field of a message is a  *)
(* list, never None, so the `is None` tests of the list blocks are false.   *)

ModifyStart(old_resource_, cleared) ==
    [replacement |-> old_resource_, cleared |-> cleared, is_updated |-> FALSE,
     raised |-> ""]

StepTargetService(a, old, m) ==
    IF m.raised = "" /\ a.target_service # None
    THEN [m EXCEPT !.is_updated = TRUE,
                   !.replacement.targetService = a.target_service[1]]
    ELSE m

StepDescription(a, old, m) ==
    IF m.raised = "" /\ a.description # None
       /\ a.description[1] # old.description
    THEN [m EXCEPT !.replacement.description = a.description[1],
                   !.is_updated = TRUE]
    ELSE m

StepConnectionPreference(a, old, m) ==
    IF m.raised = "" /\ a.connection_preference # None
       /\ GetConnectionPreference(a.connection_preference[1])
              # old.connectionPreference
    THEN [m EXCEPT !.replacement.connectionPreference =
                       GetConnectionPreference(a.connection_preference[1]),
                   !.is_updated = TRUE]
    ELSE m

\* mutant of StepEnableProxyProtocol: the flag is compared without asking
\* whether it was specified
StepEnableProxyProtocol_Unguarded(a, old, m) ==
    IF m.raised = "" /\ a.enable_proxy_protocol # Some(old.enableProxyProtocol)
    THEN [m EXCEPT !.replacement.enableProxyProtocol =
                       (a.enable_proxy_protocol = Some(TRUE)),
                   !.is_updated = TRUE]
    ELSE m

StepEnableProxyProtocol(a, old, m) ==
    IF m.raised = "" /\ a.enable_proxy_protocol # None
       /\ a.enable_proxy_protocol[1] # old.enableProxyProtocol
    THEN [m EXCEPT !.replacement.enableProxyProtocol =
                       a.enable_proxy_protocol[1],
                   !.is_updated = TRUE]
    ELSE m

StepNatSubnets(a, old, m) ==
    IF m.raised = "" /\ a.nat_subnets # None
    THEN LET new_nat_subnets == SortedStrs(GetNatSubnets(a.nat_subnets[1]))
         IN  IF new_nat_subnets # SortedStrs(old.natSubnets)
             THEN [m EXCEPT !.replacement.natSubnets = new_nat_subnets,
                            !.is_updated = TRUE]
             ELSE m
    ELSE m

\* mutant of StepConsumerRejectList: an empty new list puts the field name on
\* the Field-Clear List whether or not the list differs from the old one
StepConsumerRejectList_AlwaysClear(a, old, m) ==
    IF m.raised = "" /\ a.consumer_reject_list # None
    THEN LET new_reject_list == SortedStrs(a.consumer_reject_list[1])
             m1 == IF new_reject_list # SortedStrs(old.consumerRejectLists)
                   THEN [m EXCEPT !.replacement.consumerRejectLists =
                                      new_reject_list,
                                  !.is_updated = TRUE]
                   ELSE m
         IN  IF new_reject_list = <<>>
             THEN [m1 EXCEPT !.cleared = Append(@, "consumerRejectLists")]
             ELSE m1
    ELSE m

StepConsumerRejectList(a, old, m) ==
    IF m.raised = "" /\ a.consumer_reject_list # None
    THEN LET new_reject_list == SortedStrs(a.consumer_reject_list[1])
         IN  IF new_reject_list # SortedStrs(old.consumerRejectLists)
             THEN [m EXCEPT !.replacement.consumerRejectLists = new_reject_list,
                            !.is_updated = TRUE,
                            !.cleared =
                                IF new_reject_list = <<>>
                                THEN Append(@, "consumerRejectLists")
                                ELSE @]
             ELSE m
    ELSE m

StepConsumerAcceptList(sup, a, old, m) ==
    IF m.raised = "" /\ a.consumer_accept_list # None
    THEN LET consumer_accept_list ==
                 UpdateGetConsumerAcceptList(sup, a.consumer_accept_list[1])
             new_accept_list == SortedByKey(sup, consumer_accept_list.list)
             old_sorted == SortedByKey(sup, old.consumerAcceptLists)
         IN  IF ~consumer_accept_list.ok
             THEN [m EXCEPT !.raised = consumer_accept_list.error]
             ELSE IF ~new_accept_list.ok
             THEN [m EXCEPT !.raised = new_accept_list.error]
             ELSE IF ~old_sorted.ok
             THEN [m EXCEPT !.raised = old_sorted.error]
             ELSE IF new_accept_list.list # old_sorted.list
             THEN [m EXCEPT !.replacement.consumerAcceptLists =
                                new_accept_list.list,
                            !.is_updated = TRUE,
                            !.cleared =
                                IF new_accept_list.list = <<>>
                                THEN Append(@, "consumerAcceptLists")
                                ELSE @]
             ELSE m
    ELSE m

\* mutant of StepRemoveObsolete: the pruning pass runs whether or not the flag
\* is set
StepRemoveObsolete_Always(sup, a, m) ==
    IF m.raised = "" /\ sup
    THEN IF a.remove_obsolete_endpoint_accept_reject_entries
            /\ (a.consumer_accept_list # None \/ a.consumer_reject_list # None)
         THEN [m EXCEPT !.raised = "ConflictingArgumentsException"]
         ELSE LET r == RemoveObsoleteEndpointEntries(m.replacement, m.cleared)
              IN  [m EXCEPT !.replacement = r.sa,
                            !.cleared = r.cleared,
                            !.is_updated = @ \/ r.changed]
    ELSE m

\* mutant of StepRemoveObsolete: the check for conflicting flags is missing
StepRemoveObsolete_NoConflictCheck(sup, a, m) ==
    IF m.raised = "" /\ sup /\ a.remove_obsolete_endpoint_accept_reject_entries
    THEN LET r == RemoveObsoleteEndpointEntries(m.replacement, m.cleared)
         IN  [m EXCEPT !.replacement = r.sa,
                       !.cleared = r.cleared,
                       !.is_updated = r.changed]
    ELSE m

StepRemoveObsolete(sup, a, m) ==
    IF m.raised = "" /\ sup /\ a.remove_obsolete_endpoint_accept_reject_entries
    THEN IF a.consumer_accept_list # None \/ a.consumer_reject_list # None
         THEN [m EXCEPT !.raised = "ConflictingArgumentsException"]
         ELSE LET r == RemoveObsoleteEndpointEntries(m.replacement, m.cleared)
              IN  [m EXCEPT !.replacement = r.sa,
                            !.cleared = r.cleared,
                            !.is_updated = r.changed]
    ELSE m

StepReconcileConnections(a, old, m) ==
    IF m.raised = "" /\ a.reconcile_connections # None
       /\ a.reconcile_connections[1] # old.reconcileConnections
    THEN [m EXCEPT !.replacement.reconcileConnections =
                       a.reconcile_connections[1],
                   !.is_updated = TRUE]
    ELSE m

StepPropagatedConnectionLimit(a, old, m) ==
    IF m.raised = "" /\ a.propagated_connection_limit # None
       /\ a.propagated_connection_limit[1] # old.propagatedConnectionLimit
    THEN [m EXCEPT !.replacement.propagatedConnectionLimit =
                       a.propagated_connection_limit[1],
                   !.is_updated = TRUE]
    ELSE m

\* the state in which _Modify returns or raises
Modify(sup, a, old, cleared) ==
    LET m0  == ModifyStart(old, cleared)
        m1  == StepTargetService(a, old, m0)
        m2  == StepDescription(a, old, m1)
        m3  == StepConnectionPreference(a, old, m2)
        m4  == StepEnableProxyProtocol(a, old, m3)
        m5  == StepNatSubnets(a, old, m4)
        m6  == StepConsumerRejectList(a, old, m5)
        m7  == StepConsumerAcceptList(sup, a, old, m6)
        m8  == StepRemoveObsolete(sup, a, m7)
        m9  == StepReconcileConnections(a, old, m8)
        m10 == StepPropagatedConnectionLimit(a, old, m9)
    IN  m10

\* what _Modify returns: the copy if is_updated, None otherwise
Returned(m) == IF m.is_updated THEN Some(m.replacement) ELSE None

-----------------------------------------------------------------------------
(* Specification Spec: one invocation of UpdateHelper.Run. *)

ProjectP1 == << "p1" >>
ProjectP2 == << "p2" >>

\* the service attachments the server may hold; the identifiers of an accept
\* list are distinct
Snapshots ==
    { ServiceAttachment(nat, reject, accept, connected) :
        nat \in { <<>>, << SelfLink("s2"), SelfLink("s1") >> },
        reject \in { <<>>, << ProjectP2, ProjectP1 >>,
                     << EndpointE3, ProjectP1 >> },
        accept \in { <<>>,
                     << EndpointLimit(EndpointE1, None),
                        ProjectLimit(ProjectP1, Some(5)) >>,
                     << ProjectLimit(ProjectP2, Some(5)),
                        ProjectLimit(ProjectP1, Some(5)) >>,
                     << EndpointLimit(EndpointE3, Some(5)) >> },
        connected \in { <<>>, << << "p2", "forwardingRules", "e1" >> >> } }

\* the values of --consumer-accept-list
RunAcceptArgs ==
    { << <<>> >>,
      << (ProjectP1 :> Some(<< 5 >>)) >>,
      << (ProjectP1 :> Some(<< 5 >>) @@ ProjectP2 :> Some(<< 5 >>)) >>,
      << (ProjectP1 :> Some(<< 5 >>) @@ EndpointE1 :> None) >>,
      << (EndpointE1 :> None), (ProjectP1 :> Some(<< 5 >>)) >>,
      << (ProjectP1 :> None) >>,
      << (EndpointE1 :> None), (EndpointE1 :> Some(<< 5 >>)) >> }

OverrideNames ==
    { "target_service", "description", "connection_preference",
      "enable_proxy_protocol", "nat_subnets", "consumer_reject_list",
      "consumer_accept_list", "reconcile_connections",
      "propagated_connection_limit" }

RemoveObsoleteFlag == "remove_obsolete_endpoint_accept_reject_entries"

\* the values a flag can be given
Given(name, values, flags) == IF name \in flags THEN values ELSE { None }

\* the override sets that carry exactly the flags named: every other field is
\* unspecified (None)
ArgsWith(flags) ==
    [target_service : Given("target_service", { Some("t0"), Some("t1") }, flags),
     description : Given("description", { Some("d0"), Some("d1") }, flags),
     connection_preference :
         Given("connection_preference",
               { Some("ACCEPT_AUTOMATIC"), Some("ACCEPT_MANUAL"), Some("OTHER") },
               flags),
     enable_proxy_protocol :
         Given("enable_proxy_protocol", { Some(FALSE), Some(TRUE) }, flags),
     nat_subnets :
         Given("nat_subnets",
               { Some(<<>>), Some(<< "s1", "s2" >>), Some(<< "s1" >>) }, flags),
     consumer_reject_list :
         Given("consumer_reject_list",
               { Some(<<>>), Some(<< ProjectP1, ProjectP2 >>),
                 Some(<< ProjectP1 >>) }, flags),
     consumer_accept_list :
         Given("consumer_accept_list", { Some(x) : x \in RunAcceptArgs }, flags),
     remove_obsolete_endpoint_accept_reject_entries :
         { RemoveObsoleteFlag \in flags },
     reconcile_connections :
         Given("reconcile_connections", { Some(FALSE), Some(TRUE) }, flags),
     propagated_connection_limit :
         Given("propagated_connection_limit", { Some(250), Some(100) }, flags)]

IsSpecified(a, name) == a[name] # None

\* the override sets of a command line with at most MaxOverrides flags
ArgSets ==
    UNION { ArgsWith(flags) :
              flags \in { F \in SUBSET (OverrideNames \cup { RemoveObsoleteFlag }) :
                            Cardinality(F) <= MaxOverrides } }

Init ==
    /\ pc = "start"
    /\ args \in ArgSets
    /\ support \in BOOLEAN
    /\ server \in Snapshots
    \* the flag is registered only with endpoint-based security
    /\ args.remove_obsolete_endpoint_accept_reject_entries => support
    /\ old_resource = None
    /\ modified = None
    /\ cleared_fields = <<>>
    /\ requests = <<>>
    /\ result = None
    /\ NormIdle
    /\ PruneIdle

\* old_resource = self._GetOldResource(client, service_attachment_ref)
GetOldResource ==
    /\ pc = "start"
    /\ requests' = Append(requests, [method |-> "Get"])
    /\ old_resource' = Some(server)
    /\ pc' = "fetched"
    /\ UNCHANGED << support, server, args, modified, cleared_fields, result,
                    normVars, pruneVars >>

\* cleared_fields = []; replacement = self._Modify(...), which returns
ModifyReturns ==
    /\ pc = "fetched"
    /\ LET m == Modify(support, args, old_resource[1], <<>>)
       IN  /\ m.raised = ""
           /\ modified' = Some(m)
           /\ cleared_fields' = m.cleared
    /\ pc' = "modified"
    /\ UNCHANGED << support, server, args, old_resource, requests, result,
                    normVars, pruneVars >>

\* mutant of ModifyRaises: the Patch request is built and sent before the
\* arguments are found to be invalid
ModifyRaises_AfterPatch ==
    /\ pc = "fetched"
    /\ LET m == Modify(support, args, old_resource[1], <<>>)
       IN  /\ m.raised # ""
           /\ modified' = Some(m)
           /\ cleared_fields' = m.cleared
           /\ requests' = Append(requests,
                                 [method |-> "Patch",
                                  serviceAttachmentResource |-> m.replacement,
                                  include_fields |-> m.cleared])
    /\ pc' = "raised"
    /\ UNCHANGED << support, server, args, old_resource, result,
                    normVars, pruneVars >>

\* cleared_fields = []; replacement = self._Modify(...), which raises: the
\* exception leaves Run
ModifyRaises ==
    /\ pc = "fetched"
    /\ LET m == Modify(support, args, old_resource[1], <<>>)
       IN  /\ m.raised # ""
           /\ modified' = Some(m)
           /\ cleared_fields' = m.cleared
    /\ pc' = "raised"
    /\ UNCHANGED << support, server, args, old_resource, requests, result,
                    normVars, pruneVars >>

\* if replacement is None: return old_resource
ReturnOld ==
    /\ pc = "modified"
    /\ Returned(modified[1]) = None
    /\ result' = Some(old_resource[1])
    /\ pc' = "done"
    /\ UNCHANGED << support, server, args, old_resource, modified,
                    cleared_fields, requests, normVars, pruneVars >>

\* mutant of Patch: the request is made outside IncludeFields
Patch_NoIncludeFields ==
    /\ pc = "modified"
    /\ Returned(modified[1]) # None
    /\ requests' = Append(requests,
                          [method |-> "Patch",
                           serviceAttachmentResource |-> Returned(modified[1])[1],
                           include_fields |-> <<>>])
    /\ result' = Some("operation")
    /\ pc' = "done"
    /\ UNCHANGED << support, server, args, old_resource, modified,
                    cleared_fields, normVars, pruneVars >>

\* with IncludeFields(cleared_fields): return MakeRequests([patch request])
Patch ==
    /\ pc = "modified"
    /\ Returned(modified[1]) # None
    /\ requests' = Append(requests,
                          [method |-> "Patch",
                           serviceAttachmentResource |-> Returned(modified[1])[1],
                           include_fields |-> cleared_fields])
    /\ result' = Some("operation")
    /\ pc' = "done"
    /\ UNCHANGED << support, server, args, old_resource, modified,
                    cleared_fields, normVars, pruneVars >>

Next == GetOldResource \/ ModifyReturns \/ ModifyRaises \/ ReturnOld \/ Patch

Spec == Init /\ [][Next]_vars

-----------------------------------------------------------------------------
(* Claims about _Modify and Run, checked under Spec. *)

\* _Modify has returned or raised
ModifyEnded == pc \in { "modified", "raised", "done" }
\* _Modify has returned
ModifyReturned == pc \in { "modified", "done" }

M == modified[1]
Old == old_resource[1]
Flag == args.remove_obsolete_endpoint_accept_reject_entries

\* the field of the resource an override writes
FieldOf(name) ==
    CASE name = "target_service" -> "targetService"
      [] name = "description" -> "description"
      [] name = "connection_preference" -> "connectionPreference"
      [] name = "enable_proxy_protocol" -> "enableProxyProtocol"
      [] name = "nat_subnets" -> "natSubnets"
      [] name = "consumer_reject_list" -> "consumerRejectLists"
      [] name = "consumer_accept_list" -> "consumerAcceptLists"
      [] name = "reconcile_connections" -> "reconcileConnections"
      [] name = "propagated_connection_limit" -> "propagatedConnectionLimit"

\* a specified override changed its field of the copy
OverrideChanged(name) ==
    IsSpecified(args, name) /\ M.replacement[FieldOf(name)] # Old[FieldOf(name)]

NothingSpecified == ~Flag /\ \A name \in OverrideNames : ~IsSpecified(args, name)

\* name is the only flag of the command line
OnlySpecified(name) ==
    ~Flag /\ \A other \in OverrideNames : IsSpecified(args, other) = (other = name)

\* C1 (as stated): whenever _Modify returns and a specified override changed a
\* field of the copy, also with the remove-obsolete-entries flag set, it
\* returns the mutated copy, not None.
C1_AsStated ==
    ModifyReturned /\ (\E name \in OverrideNames : OverrideChanged(name))
        => Returned(M) # None

\* C2: with every override unspecified and the remove-obsolete-entries flag
\* not set, _Modify returns None and the Field-Clear List is still empty.
C2_NothingSpecified ==
    NothingSpecified /\ pc \notin { "start", "fetched" } =>
        /\ ModifyReturned
        /\ Returned(M) = None
        /\ M.replacement = Old
        /\ cleared_fields = <<>>

\* C2 witness: a run without any flag ended, on a service attachment whose
\* lists are not empty
C2_Witness ==
    /\ pc = "done"
    /\ NothingSpecified
    /\ result = Some(server)
    /\ server.consumerAcceptLists # <<>>
    /\ server.consumerRejectLists # <<>>
    /\ server.natSubnets # <<>>

\* C3: when _Modify returns a copy, every field whose override is unspecified
\* is the old field; the accept and reject list may differ without their own
\* override only when the remove-obsolete-entries flag is set; the connected
\* endpoints, which have no override, never differ.
C3_Frame ==
    ModifyReturned /\ Returned(M) # None =>
        /\ \A name \in OverrideNames :
             ~IsSpecified(args, name) =>
                 \/ Returned(M)[1][FieldOf(name)] = Old[FieldOf(name)]
                 \/ /\ name \in { "consumer_accept_list", "consumer_reject_list" }
                    /\ Flag
        /\ Returned(M)[1].connectedEndpoints = Old.connectedEndpoints

\* C3 witness: a copy was returned for a changed description; the lists,
\* not empty, were not overridden
C3_Witness ==
    /\ pc = "done"
    /\ Returned(M) # None
    /\ OverrideChanged("description")
    /\ ~IsSpecified(args, "consumer_accept_list")
    /\ ~IsSpecified(args, "consumer_reject_list")
    /\ Old.consumerAcceptLists # <<>>
    /\ Old.consumerRejectLists # <<>>
    /\ Old.natSubnets # <<>>

SameMultiset(xs, ys) ==
    \A v \in Range(xs) \cup Range(ys) : Count(xs, v) = Count(ys, v)

\* the new value of a repeated field as its override gives it, before sorting
NewValue(name) ==
    CASE name = "nat_subnets" -> Ok(GetNatSubnets(args.nat_subnets[1]))
      [] name = "consumer_reject_list" -> Ok(args.consumer_reject_list[1])
      [] name = "consumer_accept_list" ->
             UpdateGetConsumerAcceptList(support, args.consumer_accept_list[1])

\* the override of a repeated field holds the elements of the old field
Reordered(name) ==
    /\ IsSpecified(args, name)
    /\ NewValue(name).ok
    /\ SameMultiset(NewValue(name).list, Old[FieldOf(name)])

RepeatedOverrides == { "nat_subnets", "consumer_reject_list", "consumer_accept_list" }

\* C4: an override of a repeated field (nat subnets, reject list, accept list)
\* that holds the elements of the old field, in whatever order, does not mark
\* the field updated: the field of the copy is the old one and its name is not
\* added to the Field-Clear List; with no other override _Modify returns None
\* and the Field-Clear List stays empty.
C4_ReorderIsNoChange ==
    \A name \in RepeatedOverrides :
        ModifyEnded /\ Reordered(name) =>
            /\ M.replacement[FieldOf(name)] = Old[FieldOf(name)]
            /\ FieldOf(name) \notin Range(M.cleared)
            /\ OnlySpecified(name) =>
                 /\ ModifyReturned
                 /\ Returned(M) = None
                 /\ cleared_fields = <<>>

\* C4 witness: the reject list alone was overridden with the old elements in
\* another order, and Run returned the fetched resource
C4_Witness ==
    /\ pc = "done"
    /\ OnlySpecified("consumer_reject_list")
    /\ Reordered("consumer_reject_list")
    /\ args.consumer_reject_list[1] # Old.consumerRejectLists
    /\ result = Some(server)

ListOverridden ==
    IsSpecified(args, "consumer_accept_list")
        \/ IsSpecified(args, "consumer_reject_list")

Patches == { i \in DOMAIN requests : requests[i].method = "Patch" }
Gets == { i \in DOMAIN requests : requests[i].method = "Get" }

\* C5 (as stated): with the remove-obsolete-entries flag and an explicit
\* accept-list or reject-list override, _Modify raises the conflicting-
\* arguments error, and when it is raised neither the copy nor the caller's
\* Field-Clear List has been changed.
C5_AsStated ==
    ModifyEnded /\ Flag /\ ListOverridden =>
        /\ M.raised = "ConflictingArgumentsException"
        /\ M.replacement = Old
        /\ M.cleared = <<>>

\* building or sorting the accept list of the override raises
AcceptListRaises ==
    /\ IsSpecified(args, "consumer_accept_list")
    /\ LET new == UpdateGetConsumerAcceptList(support,
                                              args.consumer_accept_list[1])
       IN  \/ ~new.ok
           \/ ~SortedByKey(support, new.list).ok
           \/ ~SortedByKey(support, Old.consumerAcceptLists).ok

\* C5 (amended): with the remove-obsolete-entries flag and an explicit
\* accept-list or reject-list override, _Modify never returns: it raises the
\* conflicting-arguments error, unless building or sorting the accept list
\* raised first; the error comes before any Patch request and leaves the
\* fetched snapshot as it was, while the copy and the Field-Clear List may
\* already carry the list overrides.
C5_ConflictingArguments ==
    ModifyEnded /\ Flag /\ ListOverridden =>
        /\ pc = "raised"
        /\ ~AcceptListRaises => M.raised = "ConflictingArgumentsException"
        /\ AcceptListRaises => M.raised \in { "ValueError", "TypeError" }
        /\ old_resource = Some(server)
        /\ Patches = {}
        /\ result = None

\* C5 witness: the conflicting-arguments error was raised after the reject
\* list of the copy was emptied and its name put on the Field-Clear List
C5_Witness ==
    /\ pc = "raised"
    /\ M.raised = "ConflictingArgumentsException"
    /\ M.replacement.consumerRejectLists # Old.consumerRejectLists
    /\ cleared_fields = << "consumerRejectLists" >>

\* C6 (as stated): when Run raises an invalid-input-composition error, no Get
\* and no Patch request has been made.
C6_AsStated == pc = "raised" => requests = <<>>

\* C6 (amended): when Run raises an invalid-input-composition error
\* (conflicting flags, a missing connection limit, an endpoint URL in the
\* basic accept-list mode), the one Get request that fetched the resource has
\* been made and no Patch request: the error comes before any mutating call.
C6_RaisedBeforePatch ==
    pc = "raised" =>
        /\ requests = << [method |-> "Get"] >>
        /\ result = None

\* C6 witness: Run raised on an endpoint URL in the basic accept-list mode
C6_Witness ==
    /\ pc = "raised"
    /\ ~support
    /\ M.raised = "ValueError"
    /\ \E id \in DOMAIN args.consumer_accept_list[1][1] : HasForwardingRules(id)

\* C7: Run issues exactly one Get, first; then, if _Modify returned None, no
\* Patch, and Run returns the fetched resource unchanged; if _Modify returned a
\* copy, exactly one Patch, after the Get, carrying the copy and the
\* Field-Clear List as the fields to include; no Patch before Run decides.
C7_FetchDiffPatch ==
    /\ pc = "start" => requests = <<>>
    /\ pc \in { "fetched", "modified", "raised" } =>
           requests = << [method |-> "Get"] >> /\ result = None
    /\ pc = "done" =>
         IF ~M.is_updated
         THEN /\ requests = << [method |-> "Get"] >>
              /\ result = Some(server)
              /\ old_resource = Some(server)
         ELSE /\ requests =
                    << [method |-> "Get"],
                       [method |-> "Patch",
                        serviceAttachmentResource |-> M.replacement,
                        include_fields |-> M.cleared] >>
              /\ result = Some("operation")

\* C7 witness: Run ended with a Patch that carries a non-empty Field-Clear
\* List, after the Get
C7_Witness ==
    /\ pc = "done"
    /\ Len(requests) = 2
    /\ requests[1].method = "Get"
    /\ requests[2].method = "Patch"
    /\ requests[2].include_fields # <<>>
    /\ requests[2].serviceAttachmentResource # server

ScalarOverrides ==
    { "target_service", "description", "connection_preference",
      "enable_proxy_protocol", "reconcile_connections",
      "propagated_connection_limit" }

\* the new value of a scalar field as its override gives it
ScalarValue(name) ==
    IF name = "connection_preference"
    THEN GetConnectionPreference(args.connection_preference[1])
    ELSE args[name][1]

\* the override is specified and its new value is the old value of the field
EqualsOld(name) ==
    IsSpecified(args, name) /\ ScalarValue(name) = Old[FieldOf(name)]

\* scalar overrides only, at least one, each with the old value of its field
AllEqualOld ==
    /\ ~Flag
    /\ \E name \in OverrideNames : IsSpecified(args, name)
    /\ \A name \in OverrideNames :
         IsSpecified(args, name) => name \in ScalarOverrides /\ EqualsOld(name)

\* C11 (as stated): when every specified override is a scalar (target,
\* description, connection preference, proxy protocol, reconcile flag,
\* propagation limit) whose new value equals the old snapshot's, _Modify marks
\* nothing updated and returns None, and Run issues no Patch request and
\* returns the fetched resource.
C11_AsStated ==
    ModifyReturned /\ AllEqualOld =>
        /\ ~M.is_updated
        /\ Returned(M) = None
        /\ Patches = {}
        /\ pc = "done" => result = Some(server)

ListOverrides == { "consumer_reject_list", "consumer_accept_list" }

\* the override of a list is specified and its new list is empty
EmptyOverride(name) ==
    /\ IsSpecified(args, name)
    /\ NewValue(name).ok
    /\ NewValue(name).list = <<>>

\* the block of the override raises before it compares the lists
BlockRaises(name) == name = "consumer_accept_list" /\ AcceptListRaises

-----------------------------------------------------------------------------
(* Which entries the pruner keeps, checked under SpecPrune. *)

\* the trailing path segment of a URL: what follows the last separator once
\* the trailing separators are stripped
TrailingSegment(s) ==
    IF \E i \in DOMAIN s : s[i] # ""
    THEN s[CHOOSE i \in DOMAIN s :
               s[i] # "" /\ \A j \in DOMAIN s : j > i => s[j] = ""]
    ELSE ""

\* the connected-endpoint-ID set of the service attachment given to the pass
ConnectedIds ==
    { TrailingSegment(p_in.sa.connectedEndpoints[i]) :
        i \in { k \in DOMAIN p_in.sa.connectedEndpoints :
                  /\ p_in.sa.connectedEndpoints[k] # None
                  /\ p_in.sa.connectedEndpoints[k] # << "" >> } }

\* the accept-list entries the claim says stay
AcceptStays(e) ==
    e.endpointUrl = None \/ TrailingSegment(e.endpointUrl) \in ConnectedIds

\* the reject-list strings the claim says stay
RejectStays(e) ==
    ~(\E i \in 2..(Len(e) - 1) : e[i] = "forwardingRules")
        \/ TrailingSegment(e) \in ConnectedIds

AcceptKeptExactly ==
    PruneRes.sa.consumerAcceptLists
        = SelectSeq(p_in.sa.consumerAcceptLists, LAMBDA e : AcceptStays(e))

RejectKeptExactly ==
    PruneRes.sa.consumerRejectLists
        = SelectSeq(p_in.sa.consumerRejectLists, LAMBDA e : RejectStays(e))

\* every project and network entry of the accept list given to the pass is in
\* the list it leaves, as often
ProjectAndNetworkEntriesStay ==
    \A e \in Range(p_in.sa.consumerAcceptLists) :
        e.projectIdOrNum # None \/ e.networkUrl # None =>
            Count(PruneRes.sa.consumerAcceptLists, e)
                = Count(p_in.sa.consumerAcceptLists, e)

\* C13: with the connected-endpoint-ID set the trailing segments of the
\* connected endpoints that carry an identifier, the pruning pass leaves, in
\* their order, exactly the accept-list entries without an endpoint URL or
\* whose URL's trailing segment is in the set, and exactly the reject-list
\* strings without '/forwardingRules/' or whose trailing segment is in the
\* set; project and network entries are never removed, and no other field of
\* the service attachment changes.
C13_PruningKeeps ==
    /\ PruneDone("accepted") =>
         /\ AcceptKeptExactly
         /\ ProjectAndNetworkEntriesStay
         /\ PruneRes.sa = [p_in.sa EXCEPT !.consumerAcceptLists =
                                              PruneRes.sa.consumerAcceptLists]
    /\ PruneDone("rejected") =>
         /\ RejectKeptExactly
         /\ PruneRes.sa = [p_in.sa EXCEPT !.consumerRejectLists =
                                              PruneRes.sa.consumerRejectLists]
    /\ PruneDone("both") =>
         /\ AcceptKeptExactly
         /\ RejectKeptExactly
         /\ ProjectAndNetworkEntriesStay
         /\ PruneRes.sa.connectedEndpoints = p_in.sa.connectedEndpoints

\* C13 witness: the connected endpoint is e1 of another project, its URL with
\* a trailing separator, next to an entry without an identifier; the full pass
\* removed the entries of endpoint e3 from both lists and kept the accept-list
\* entry of endpoint e1 and the reject-list string of a network
C13_Witness ==
    /\ PruneDone("both")
    /\ ConnectedIds = { "e1" }
    /\ None \in Range(p_in.sa.connectedEndpoints)
    /\ EndpointE1 \notin Range(p_in.sa.connectedEndpoints)
    /\ EndpointLimit(EndpointE3, Some(5)) \in Range(p_in.sa.consumerAcceptLists)
    /\ PruneRes.sa.consumerAcceptLists = << EndpointLimit(EndpointE1Slash, None) >>
    /\ EndpointE3 \in Range(p_in.sa.consumerRejectLists)
    /\ PruneRes.sa.consumerRejectLists = << NetworkN1 >>

-----------------------------------------------------------------------------
(* The connection preference in _Modify, checked under Spec. *)

PreferenceTokens == { "ACCEPT_AUTOMATIC", "ACCEPT_MANUAL" }

\* the connection-preference override carries a token the resolver does not
\* know
UnrecognizedToken ==
    /\ IsSpecified(args, "connection_preference")
    /\ args.connection_preference[1] \notin PreferenceTokens

\* C14 (as stated): the resolver maps ACCEPT_AUTOMATIC and ACCEPT_MANUAL to
\* the enum value of that name; when the override carries an unrecognized
\* token, _Modify leaves the connection preference of the copy as the snapshot
\* has it and, for this override, does not mark the resource updated: with no
\* other flag it returns None and Run issues no Patch request.
C14_AsStated ==
    /\ ModifyReturned /\ IsSpecified(args, "connection_preference")
           /\ ~UnrecognizedToken =>
         ScalarValue("connection_preference") = Some(args.connection_preference[1])
    /\ ModifyReturned /\ UnrecognizedToken =>
         /\ M.replacement.connectionPreference = Old.connectionPreference
         /\ OnlySpecified("connection_preference") =>
              /\ Returned(M) = None
              /\ Patches = {}

====
